---- MODULE Spec2Model ----
(***************************************************************************)
(* Model of the /roi handler calculate_roi of src/app.py.                  *)
(*                                                                         *)
(* Python floats are modelled as exact values (n/d) * 2^e.  The request    *)
(* bodies enumerated below hold dyadic values, on which every float        *)
(* operation of the handler is exact and round(x, 2) meets exact decimal   *)
(* ties (which Python rounds half-to-even); where a default rate of the    *)
(* handler (0.022, 0.04, 0.005) comes in, the amounts are such that no     *)
(* rounded value lies at a tie.  The binary exponent e is 0 for ordinary   *)
(* amounts; it is there for magnitudes near the range limit of a double,   *)
(* where float ** int raises OverflowError.                                *)
(***************************************************************************)
EXTENDS Integers, Sequences, FiniteSets, TLC

\* ------------------------------------------------------------------ bounds

\* Largest explicit "lifetime" value a request carries.
MaxLifetime == 3

\* ------------------------------------------------------- float arithmetic

Abs(i) == IF i < 0 THEN -i ELSE i

RECURSIVE GCD(_, _)
GCD(a, b) == IF b = 0 THEN a ELSE GCD(b, a % b)

\* The float (n/d) * 2^e in lowest terms, d > 0; zero is 0/1 * 2^0.
Norm(n, d, e) ==
    IF n = 0 THEN [n |-> 0, d |-> 1, e |-> 0]
    ELSE LET s == IF d < 0 THEN -1 ELSE 1
             g == GCD(Abs(n), Abs(d))
         IN  [n |-> (s * n) \div g, d |-> (s * d) \div g, e |-> e]

F(n, d) == Norm(n, d, 0)
Zero == F(0, 1)
One == F(1, 1)
Hundred == F(100, 1)

\* 2^k as a float, for the magnitudes no integer of the model can hold.
Pow2(k) == [n |-> 1, d |-> 1, e |-> k]

IsZero(x) == x.n = 0

FNeg(x) == [x EXCEPT !.n = -x.n]

FMul(x, y) ==
    LET g1 == GCD(Abs(x.n), y.d)
        g2 == GCD(Abs(y.n), x.d)
    IN  IF x.n = 0 \/ y.n = 0 THEN Zero
        ELSE Norm((x.n \div g1) * (y.n \div g2),
                  (x.d \div g2) * (y.d \div g1), x.e + y.e)

\* x / y for y # 0 (the caller raises ZeroDivisionError for y = 0).
FDiv(x, y) == FMul(x, Norm(y.d, y.n, -y.e))

\* x + y.  Operands of equal binary exponent add exactly.  Operands whose
\* exponents differ are, in this model, hundreds of binary orders apart
\* (see FloatDomain), so the smaller one is below half an ulp of the larger
\* and round-to-nearest returns the larger one.
FAdd(x, y) ==
    IF x.n = 0 THEN y
    ELSE IF y.n = 0 THEN x
    ELSE IF x.e = y.e
         THEN LET g == GCD(x.d, y.d)
                  l == (x.d \div g) * y.d
              IN  Norm(x.n * (l \div x.d) + y.n * (l \div y.d), l, x.e)
    ELSE IF x.e > y.e THEN x ELSE y

FSub(x, y) == FAdd(x, FNeg(y))

\* x >= y
FGe(x, y) == FSub(x, y).n >= 0
FGt(x, y) == FSub(x, y).n > 0
FLe(x, y) == FGe(y, x)
FAbs(x) == [x EXCEPT !.n = Abs(x.n)]

RECURSIVE FloorLog2(_)
FloorLog2(q) == IF q <= 1 THEN 0 ELSE 1 + FloorLog2(q \div 2)

RECURSIVE CeilLog2Ratio(_, _)
\* least k with 2^k * n >= d, for 0 < n < d
CeilLog2Ratio(n, d) == IF n >= d THEN 0 ELSE 1 + CeilLog2Ratio(2 * n, d)

\* floor(log2 |x|) for x # 0: the binary order of magnitude of x.
Exponent2(x) ==
    IF Abs(x.n) >= x.d THEN x.e + FloorLog2(Abs(x.n) \div x.d)
    ELSE x.e - CeilLog2Ratio(Abs(x.n), x.d)

\* A double holds magnitudes below 2^1024; below 2^-1074 it holds zero.
DBL_MAX_EXP == 1024
DBL_MIN_EXP == -1074

RECURSIVE RawPow(_, _)
RawPow(x, k) == IF k = 0 THEN One ELSE FMul(x, RawPow(x, k - 1))

\* float ** int for an exponent k >= 0: raises OverflowError when the result
\* is out of range, returns 0.0 when it underflows, and 0.0 ** 0 is 1.0.
PowOverflows(x, k) ==
    LET r == RawPow(x, k) IN r.n # 0 /\ Exponent2(r) >= DBL_MAX_EXP
FPow(x, k) ==
    LET r == RawPow(x, k)
    IN  IF r.n # 0 /\ Exponent2(r) < DBL_MIN_EXP THEN Zero ELSE r

\* round-half-to-even of n/d (d > 0) to an integer
RoundHalfEven(n, d) ==
    LET q == n \div d
        r == n - q * d
    IN  IF 2 * r < d THEN q
        ELSE IF 2 * r > d THEN q + 1
        ELSE IF q % 2 = 0 THEN q ELSE q + 1

\* round(x, 2): a float beyond 2^53 is an integer already, one of a negative
\* binary exponent this far down rounds to 0.0.
Round2(x) ==
    IF x.e > 0 THEN x
    ELSE IF x.e < 0 THEN Zero
    ELSE F(RoundHalfEven(x.n * 100, x.d), 100)

\* int(x): truncation toward zero
Trunc(x) == IF x.n >= 0 THEN x.n \div x.d ELSE -((-x.n) \div x.d)

\* ------------------------------------------------------------ request body

\* A JSON value under a key of the body: a number, a string that is no
\* number, or no such key.
JNum(x) == [kind |-> "num", v |-> x]
JStr == [kind |-> "str", v |-> Zero]
Absent == [kind |-> "absent", v |-> Zero]

Required == <<"capex", "opex", "generation", "tariff">>
Optional == <<"lifetime", "inflation_rate", "discount_rate", "efficiency_drift",
              "one_time_incentive", "feed_in_tariff_bonus">>
\* the order in which lines 81-92 read and convert the fields
FieldOrder == Required \o Optional
Fields == {FieldOrder[i] : i \in 1..Len(FieldOrder)}
RequiredSet == {Required[i] : i \in 1..Len(Required)}

DefaultLifetime == 25
\* the second argument of data.get(...)
Default(f) ==
    CASE f = "lifetime" -> F(DefaultLifetime, 1)
      [] f = "inflation_rate" -> F(22, 1000)
      [] f = "discount_rate" -> F(4, 100)
      [] f = "efficiency_drift" -> F(5, 1000)
      [] f = "one_time_incentive" -> Zero
      [] f = "feed_in_tariff_bonus" -> Zero

\* ---------------------------------------------------------------- exceptions

NoExc == [type |-> "none", msg |-> <<>>]
KeyError(f) == [type |-> "KeyError", msg |-> <<"'", f, "'">>]
TypeErrorNotSubscriptable ==
    [type |-> "TypeError",
     msg |-> <<"list indices must be integers or slices, not str">>]
ValueErrorFloat ==
    [type |-> "ValueError", msg |-> <<"could not convert string to float: 'abc'">>]
ValueErrorInt ==
    [type |-> "ValueError",
     msg |-> <<"invalid literal for int() with base 10: 'abc'">>]
OverflowError ==
    [type |-> "OverflowError", msg |-> <<"(34, 'Numerical result out of range')">>]
ZeroDivisionError ==
    [type |-> "ZeroDivisionError", msg |-> <<"float division by zero">>]

Raised(e) == e.type # "none"

\* The status of the KeyError handler (line 140) and of the generic one
\* (line 142).
KeyErrorStatusUnset(e) == 200
KeyErrorStatus(e) == 400
ExceptionStatus(e) == 500

\* except KeyError ... / except Exception ...: the response of lines 139-142
ErrorResponse(e) ==
    IF e.type = "KeyError"
    THEN [status |-> KeyErrorStatus(e),
          body |-> [error |-> <<"Missing field: ">> \o e.msg]]
    ELSE [status |-> ExceptionStatus(e), body |-> [error |-> e.msg]]

\* ------------------------------------------------------------------- parsing

\* data['f'] for a required field, data.get('f', default) for an optional one
Lookup(d, f) ==
    IF d.fields[f].kind = "absent" /\ f \notin RequiredSet
    THEN JNum(Default(f))
    ELSE d.fields[f]

\* The exception that reading and converting field f raises, if any:
\* data['f'] raises KeyError, float('abc') and int('abc') raise ValueError.
FieldExc(d, f) ==
    LET v == Lookup(d, f)
    IN  IF v.kind = "absent" THEN KeyError(f)
        ELSE IF v.kind = "str"
             THEN (IF f = "lifetime" THEN ValueErrorInt ELSE ValueErrorFloat)
        ELSE NoExc

RECURSIVE FirstExcFrom(_, _)
FirstExcFrom(d, i) ==
    IF i > Len(FieldOrder) THEN NoExc
    ELSE IF Raised(FieldExc(d, FieldOrder[i])) THEN FieldExc(d, FieldOrder[i])
    ELSE FirstExcFrom(d, i + 1)

\* The first exception of lines 79-92: data['capex'] on a body that is no
\* JSON object raises TypeError; otherwise the fields are read in order.
ParseExc(d) ==
    IF ~d.object THEN TypeErrorNotSubscriptable ELSE FirstExcFrom(d, 1)

\* float(...) / int(...) of a numeric JSON value
FloatOf(d, f) == Lookup(d, f).v
IntOf(d, f) == Trunc(Lookup(d, f).v)

\* Python's None and an int, in one shape
None == [isNone |-> TRUE, i |-> 0]
PyInt(y) == [isNone |-> FALSE, i |-> y]
\* `not v`: None and 0 are falsy
Falsy(v) == v.isNone \/ v.i = 0

\* The first value of range(1, lifetime + 1) and its (exclusive) stop.
RangeStart == 1
RangeStopShort(lifetime) == lifetime
RangeStop(lifetime) == lifetime + 1

\* The locals of calculate_roi before line 79 has run (nothing is bound yet).
UnboundLocals ==
    [capex |-> Zero, opex |-> Zero, generation |-> Zero, tariff |-> Zero,
     lifetime |-> 0, inflation_rate |-> Zero, discount_rate |-> Zero,
     efficiency_drift |-> Zero, one_time_incentive |-> Zero,
     feed_in_tariff_bonus |-> Zero,
     annual_savings |-> <<>>, utility_costs |-> <<>>, cumulative_savings |-> <<>>,
     current_generation |-> Zero, total_discounted_savings |-> Zero,
     cumulative |-> Zero, payback_year |-> None, year |-> RangeStart - 1]

\* Lines 81-101 on a body all of whose fields convert.
ParseLocals(d) ==
    [capex |-> FloatOf(d, "capex"),
     opex |-> FloatOf(d, "opex"),
     generation |-> FloatOf(d, "generation"),
     tariff |-> FloatOf(d, "tariff"),
     lifetime |-> IntOf(d, "lifetime"),
     inflation_rate |-> FloatOf(d, "inflation_rate"),
     discount_rate |-> FloatOf(d, "discount_rate"),
     efficiency_drift |-> FloatOf(d, "efficiency_drift"),
     one_time_incentive |-> FloatOf(d, "one_time_incentive"),
     feed_in_tariff_bonus |-> FloatOf(d, "feed_in_tariff_bonus"),
     annual_savings |-> <<>>, utility_costs |-> <<>>, cumulative_savings |-> <<>>,
     current_generation |-> FloatOf(d, "generation"),
     total_discounted_savings |-> Zero,
     cumulative |-> Zero, payback_year |-> None, year |-> RangeStart - 1]

\* ------------------------------------------------------------------ the loop

\* The loop variable of the next iteration, and whether range(...) has one.
NextYear(L) == L.year + 1
HasNext(L) == NextYear(L) < RangeStop(L.lifetime)

\* line 104
DegradedGen(L, year) ==
    FMul(L.current_generation, FPow(FSub(One, L.efficiency_drift), year - 1))
\* lines 105-107
AnnualProfit(L, year) ==
    FSub(FMul(DegradedGen(L, year), FAdd(L.tariff, L.feed_in_tariff_bonus)), L.opex)
\* line 108
InflatedUtilityCost(L, year) ==
    FMul(FMul(L.tariff, DegradedGen(L, year)),
         FPow(FAdd(One, L.inflation_rate), year - 1))
\* line 110: the divisor
DiscountFactor(L, year) == FPow(FAdd(One, L.discount_rate), year)

\* line 112: cumulative += annual_profit
AccumulateOverwrite(cumulative, annual_profit) == annual_profit
Accumulate(cumulative, annual_profit) == FAdd(cumulative, annual_profit)

\* line 118: the condition of the if
PaybackTestNoGuard(payback_year, cumulative, capex, one_time_incentive) ==
    FGe(cumulative, FSub(capex, one_time_incentive))
PaybackTestStrict(payback_year, cumulative, capex, one_time_incentive) ==
    Falsy(payback_year) /\ FGt(cumulative, FSub(capex, one_time_incentive))
PaybackTest(payback_year, cumulative, capex, one_time_incentive) ==
    Falsy(payback_year) /\ FGe(cumulative, FSub(capex, one_time_incentive))

\* The exception one iteration raises, if any: the three ** of lines 104, 108
\* and 110 raise OverflowError, the / of line 110 raises ZeroDivisionError.
YearExc(L, year) ==
    IF PowOverflows(FSub(One, L.efficiency_drift), year - 1) THEN OverflowError
    ELSE IF PowOverflows(FAdd(One, L.inflation_rate), year - 1) THEN OverflowError
    ELSE IF PowOverflows(FAdd(One, L.discount_rate), year) THEN OverflowError
    ELSE IF IsZero(DiscountFactor(L, year)) THEN ZeroDivisionError
    ELSE NoExc

\* Lines 104-119 for one year that raises nothing.
YearBody(L, year) ==
    LET annual_profit == AnnualProfit(L, year)
        inflated_utility_cost == InflatedUtilityCost(L, year)
        discounted_profit == FDiv(annual_profit, DiscountFactor(L, year))
        cumulative == Accumulate(L.cumulative, annual_profit)
    IN  [L EXCEPT
           !.year = year,
           !.total_discounted_savings = FAdd(@, discounted_profit),
           !.cumulative = cumulative,
           !.annual_savings = Append(@, Round2(annual_profit)),
           !.utility_costs = Append(@, Round2(inflated_utility_cost)),
           !.cumulative_savings = Append(@, Round2(cumulative)),
           !.payback_year =
               IF PaybackTest(@, cumulative, L.capex, L.one_time_incentive)
               THEN PyInt(year) ELSE @]

\* ------------------------------------------------------------ after the loop

\* line 121
NetProfitMinusIncentive(cumulative, capex, one_time_incentive) ==
    FSub(FSub(cumulative, capex), one_time_incentive)
NetProfit(cumulative, capex, one_time_incentive) ==
    FAdd(FSub(cumulative, capex), one_time_incentive)

\* line 122 (for capex # 0)
RoiPercent(net_profit, capex) == FMul(FDiv(net_profit, capex), Hundred)

\* line 122: net_profit / capex raises ZeroDivisionError for capex == 0
FinishExc(L) == IF IsZero(L.capex) THEN ZeroDivisionError ELSE NoExc

\* the value under "payback_period_years" (line 134)
NotAchieved == [kind |-> "str", i |-> 0, s |-> "Not achieved"]
JInt(y) == [kind |-> "int", i |-> y, s |-> ""]
PaybackPeriodYears(payback_year) ==
    IF ~Falsy(payback_year) THEN JInt(payback_year.i) ELSE NotAchieved

\* lines 124-137
SuccessResponse(L) ==
    LET net_profit == NetProfit(L.cumulative, L.capex, L.one_time_incentive)
    IN  [status |-> 200,
         body |-> [capex |-> L.capex,
                   opex |-> L.opex,
                   lifetime |-> L.lifetime,
                   inflation_rate |-> L.inflation_rate,
                   discount_rate |-> L.discount_rate,
                   efficiency_drift |-> L.efficiency_drift,
                   annual_savings |-> L.annual_savings,
                   utility_costs |-> L.utility_costs,
                   cumulative_savings |-> L.cumulative_savings,
                   payback_period_years |-> PaybackPeriodYears(L.payback_year),
                   roi_percent |-> Round2(RoiPercent(net_profit, L.capex)),
                   total_profit |-> Round2(net_profit)]]

\* lines 121-142 once the loop has ended
FinishResponse(L) ==
    IF Raised(FinishExc(L)) THEN ErrorResponse(FinishExc(L)) ELSE SuccessResponse(L)

RECURSIVE RunLoop(_)
\* lines 103-142 as a function of the parsed locals
RunLoop(L) ==
    IF HasNext(L)
    THEN IF Raised(YearExc(L, NextYear(L))) THEN ErrorResponse(YearExc(L, NextYear(L)))
         ELSE RunLoop(YearBody(L, NextYear(L)))
    ELSE FinishResponse(L)

\* calculate_roi as a function of the request body
Handle(d) ==
    IF Raised(ParseExc(d)) THEN ErrorResponse(ParseExc(d)) ELSE RunLoop(ParseLocals(d))

\* ------------------------------------------------------------- the requests

\* a JSON object with the ten keys, in the order of FieldOrder
Body(c, o, g, t, l, i, r, e, s, b) ==
    [object |-> TRUE,
     fields |-> [capex |-> c, opex |-> o, generation |-> g, tariff |-> t,
                 lifetime |-> l, inflation_rate |-> i, discount_rate |-> r,
                 efficiency_drift |-> e, one_time_incentive |-> s,
                 feed_in_tariff_bonus |-> b]]

CapexVals == {F(-1, 1), Zero, F(1, 4), One}
OpexVals == {Zero, F(1, 8), One}
GenerationVals == {F(2, 1)}
TariffVals == {F(1, 8), One}
\* integers, and 2.5, which int() truncates
LifetimeVals == {F(k, 1) : k \in -1..MaxLifetime} \cup {F(5, 2)}
InflationVals == {Zero, One}
\* 2^600 is a double; its square is not
DiscountVals == {Zero, One, F(-1, 1), Pow2(600)}
DriftVals == {Zero, F(1, 2), F(2, 1)}
IncentiveVals == {Zero, F(1, 4)}
BonusVals == {Zero, F(1, 8)}

\* every field present and numeric
NumericBodies ==
    {Body(JNum(c), JNum(o), JNum(g), JNum(t), JNum(l), JNum(i), JNum(r), JNum(e),
          JNum(s), JNum(b)) :
        c \in CapexVals, o \in OpexVals, g \in GenerationVals, t \in TariffVals,
        l \in LifetimeVals, i \in InflationVals, r \in DiscountVals,
        e \in DriftVals, s \in IncentiveVals, b \in BonusVals}

\* required fields present, missing or not numeric
Defect == {JNum(One), Absent, JStr}
RequiredDefectBodies ==
    {Body(c, o, g, t, JNum(One), JNum(Zero), JNum(Zero), JNum(Zero), s, JNum(Zero)) :
        c \in Defect, o \in Defect, g \in Defect, t \in Defect,
        s \in {JNum(Zero), JStr}}

\* optional fields present, defaulted or not numeric
OptDefect == {JNum(Zero), Absent, JStr}
OptionalDefectBodies ==
    {Body(JNum(One), JNum(Zero), JNum(F(2, 1)), JNum(One), l, i, r, e, s, b) :
        l \in {JNum(One), JNum(F(2, 1)), JStr},
        i \in OptDefect, r \in OptDefect, e \in OptDefect, s \in OptDefect,
        b \in OptDefect}

\* no "lifetime" key: the default of 25 years
DefaultLifetimeBodies ==
    {Body(JNum(c), JNum(o), JNum(One), JNum(F(1, 8)), Absent, JNum(Zero), JNum(r),
          JNum(e), Absent, Absent) :
        c \in {One, F(2, 1)}, o \in {Zero, F(1, 8)}, r \in {Zero, Pow2(600)},
        e \in {Zero, F(2, 1)}}

\* a JSON body that is no object (a list)
NotAnObject ==
    [object |-> FALSE, fields |-> [f \in Fields |-> Absent]]

Bodies ==
    NumericBodies \cup RequiredDefectBodies \cup OptionalDefectBodies
        \cup DefaultLifetimeBodies \cup {NotAnObject}

\* ---------------------------------------------------------- the state machine

VARIABLES data, pc, locals, response

vars == <<data, pc, locals, response>>

NoResponse == [status |-> 0, body |-> [error |-> <<>>]]

\* no request yet
Unread == [object |-> FALSE, fields |-> [f \in Fields |-> Absent]]

Init ==
    /\ data = Unread
    /\ pc = "idle"
    /\ locals = UnboundLocals
    /\ response = NoResponse

\* line 13: a POST to /roi arrives and calculate_roi is invoked; its body is
\* what request.json (line 79) will return
Request ==
    /\ pc = "idle"
    /\ data' \in Bodies
    /\ pc' = "parse"
    /\ UNCHANGED <<locals, response>>

\* lines 79-101: read and convert the fields, initialise the accumulators;
\* an exception goes to its handler (lines 139-142)
Parse ==
    /\ pc = "parse"
    /\ IF Raised(ParseExc(data))
       THEN /\ response' = ErrorResponse(ParseExc(data))
            /\ pc' = "done"
            /\ UNCHANGED locals
       ELSE /\ locals' = ParseLocals(data)
            /\ pc' = "loop"
            /\ UNCHANGED response
    /\ UNCHANGED data

\* lines 103-119: one iteration of the year loop
LoopIter ==
    /\ pc = "loop"
    /\ HasNext(locals)
    /\ IF Raised(YearExc(locals, NextYear(locals)))
       THEN /\ response' = ErrorResponse(YearExc(locals, NextYear(locals)))
            /\ pc' = "done"
            /\ locals' = [locals EXCEPT !.year = NextYear(locals)]
       ELSE /\ locals' = YearBody(locals, NextYear(locals))
            /\ pc' = "loop"
            /\ UNCHANGED response
    /\ UNCHANGED data

\* lines 121-137 (and 141-142 when line 122 divides by zero)
Finish ==
    /\ pc = "loop"
    /\ ~HasNext(locals)
    /\ response' = FinishResponse(locals)
    /\ pc' = "done"
    /\ UNCHANGED <<data, locals>>

Next == Request \/ Parse \/ LoopIter \/ Finish

Spec == Init /\ [][Next]_vars

\* ------------------------------------------------------------------- claims

Done == pc = "done"
Success == Done /\ response.status = 200

ResultFields ==
    {"capex", "opex", "lifetime", "inflation_rate", "discount_rate",
     "efficiency_drift", "annual_savings", "utility_costs", "cumulative_savings",
     "payback_period_years", "roi_percent", "total_profit"}

IsNum(f) == data.fields[f].kind = "num"
AllNumeric == data.object /\ \A f \in Fields : IsNum(f)
MissingRequired == {f \in RequiredSet : data.fields[f].kind = "absent"}
\* a discount_rate whose powers are ordinary floats
PlainDiscount == data.fields.discount_rate.v \in {Zero, One}

\* capex - one_time_incentive, the amount the cumulative profit has to reach
Threshold(L) == FSub(L.capex, L.one_time_incentive)

RECURSIVE CumulativeAfter(_, _)
\* the profit of the years 1..y, summed year by year from the inputs
CumulativeAfter(L, y) ==
    IF y = 0 THEN Zero ELSE FAdd(CumulativeAfter(L, y - 1), AnnualProfit(L, y))

QualifyingYears(L) ==
    {y \in 1..L.lifetime : FGe(CumulativeAfter(L, y), Threshold(L))}

RECURSIVE SumTo(_, _)
\* seq[1] + ... + seq[i]
SumTo(seq, i) == IF i = 0 THEN Zero ELSE FAdd(SumTo(seq, i - 1), seq[i])

\* The floats of the handler: the exponent form is met in the discount
\* factor and the discounted total only, and there hundreds of binary orders
\* away from the ordinary amounts.
FloatDomain ==
    /\ locals.total_discounted_savings.e \in {0, -600}
    /\ \A x \in {locals.capex, locals.opex, locals.generation, locals.tariff,
                  locals.inflation_rate, locals.efficiency_drift,
                  locals.one_time_incentive, locals.feed_in_tariff_bonus,
                  locals.cumulative, locals.current_generation} : x.e = 0
    /\ locals.discount_rate.e \in {0, 600}

C2_NonPositiveCapexRejected ==
    (Done /\ AllNumeric /\ PlainDiscount /\ Trunc(data.fields.lifetime.v) > 0
          /\ FLe(data.fields.capex.v, Zero)) =>
        (response.status = 400 /\ DOMAIN response.body = {"error"})

\* C3: a request with lifetime <= 0 (every field present and numeric, capex
\* > 0, an ordinary discount_rate) is answered with a validation error and
\* never with a success record of empty sequences.
C3_NonPositiveLifetimeRejected ==
    (Done /\ AllNumeric /\ PlainDiscount /\ FGt(data.fields.capex.v, Zero)
          /\ Trunc(data.fields.lifetime.v) <= 0) =>
        (response.status = 400 /\ DOMAIN response.body = {"error"})

\* C4: a body that lacks a required field, whatever its other fields hold, is
\* answered with status 400 and "Missing field: <name>" for a field that is
\* missing, before any iteration of the year loop.
C4_MissingFieldReported ==
    (Done /\ data.object /\ MissingRequired # {}) =>
        /\ response.status = 400
        /\ \E f \in MissingRequired :
               response.body = [error |-> <<"Missing field: ", "'", f, "'">>]
        /\ locals.annual_savings = <<>>

\* C5: the three sequences grow in lockstep, one element each per iteration,
\* and in the success response to a valid input (capex > 0, lifetime > 0)
\* each has exactly lifetime elements.
C5_SequencesInLockstep ==
    /\ Len(locals.annual_savings) = Len(locals.utility_costs)
    /\ Len(locals.utility_costs) = Len(locals.cumulative_savings)
    /\ pc = "loop" => Len(locals.annual_savings) = locals.year
    /\ (Success /\ FGt(locals.capex, Zero) /\ locals.lifetime > 0) =>
           /\ Len(response.body.annual_savings) = locals.lifetime
           /\ Len(response.body.utility_costs) = locals.lifetime
           /\ Len(response.body.cumulative_savings) = locals.lifetime

C5_Witness ==
    /\ Success /\ FGt(locals.capex, Zero) /\ locals.lifetime = 3
    /\ Len(response.body.cumulative_savings) = 3

\* C6 as stated: in a success response (here: to a request with capex > 0 and
\* lifetime > 0) cumulative_savings[i] equals the sum of annual_savings[0..i].
C6_ExactRunningSum ==
    (Success /\ FGt(locals.capex, Zero) /\ locals.lifetime > 0) =>
        \A i \in 1..Len(response.body.cumulative_savings) :
            response.body.cumulative_savings[i]
                = SumTo(response.body.annual_savings, i)

\* C6 as amended: cumulative_savings[i] is the running total of the unrounded
\* annual profits, rounded to 2 decimals, and annual_savings[i] is the rounded
\* annual profit; the sum of annual_savings[0..i] is within (i + 2) half
\* cents of cumulative_savings[i].
C6_RoundedRunningSum ==
    Success =>
        \A i \in 1..Len(response.body.cumulative_savings) :
            /\ response.body.cumulative_savings[i]
                   = Round2(CumulativeAfter(locals, i))
            /\ response.body.annual_savings[i] = Round2(AnnualProfit(locals, i))
            /\ FLe(FAbs(FSub(response.body.cumulative_savings[i],
                             SumTo(response.body.annual_savings, i))),
                   F(i + 1, 200))

\* a year of negative profit after a profitable one, and a response whose
\* cumulative_savings is not the sum of its annual_savings
C6_Witness ==
    /\ Success /\ Len(response.body.cumulative_savings) >= 2
    /\ FGt(Zero, response.body.annual_savings[2])
    /\ FGt(response.body.annual_savings[1], Zero)
    /\ response.body.cumulative_savings[2]
           # SumTo(response.body.annual_savings, 2)

\* what C7 computes from the response: cumulative_savings[lifetime-1] - capex
\* + one_time_incentive, and that over capex times 100
NetOfRounded ==
    FAdd(FSub(response.body.cumulative_savings[locals.lifetime], locals.capex),
         locals.one_time_incentive)
RoiOfRounded == FMul(FDiv(NetOfRounded, locals.capex), Hundred)

ValidSuccess == Success /\ FGt(locals.capex, Zero) /\ locals.lifetime > 0

\* C7 as stated: total_profit and roi_percent equal the values computed from
\* cumulative_savings[lifetime-1].
C7_ExactTotals ==
    ValidSuccess =>
        /\ response.body.total_profit = NetOfRounded
        /\ response.body.roi_percent = RoiOfRounded

\* the unrounded cumulative profit of the whole lifetime - capex + incentive
NetOfUnrounded ==
    FAdd(FSub(CumulativeAfter(locals, locals.lifetime), locals.capex),
         locals.one_time_incentive)

\* C7 as amended: total_profit is the unrounded cumulative profit - capex +
\* one_time_incentive, rounded to 2 decimals, and roi_percent is that amount
\* over capex times 100, rounded to 2 decimals; so total_profit is within 0.01
\* of cumulative_savings[lifetime-1] - capex + one_time_incentive, and
\* roi_percent within 0.005 + 0.5 / capex of that over capex times 100.
C7_TotalsWithinRounding ==
    ValidSuccess =>
        /\ response.body.total_profit = Round2(NetOfUnrounded)
        /\ response.body.roi_percent
               = Round2(FMul(FDiv(NetOfUnrounded, locals.capex), Hundred))
        /\ FLe(FAbs(FSub(response.body.total_profit, NetOfRounded)), F(1, 100))
        /\ FLe(FAbs(FSub(response.body.roi_percent, RoiOfRounded)),
               FAdd(F(1, 200), FDiv(F(1, 2), locals.capex)))

\* incentive and bonus both nonzero, and a total_profit that is not the value
\* computed from the rounded cumulative_savings
C7_Witness ==
    /\ ValidSuccess
    /\ ~IsZero(locals.one_time_incentive) /\ ~IsZero(locals.feed_in_tariff_bonus)
    /\ response.body.total_profit # NetOfRounded

\* C8: every invocation ends, and with one of two outcomes.  Each step of the
\* handler leaves "parse", or runs the loop body for the next year of
\* 1..lifetime, or leaves the loop for "done": after at most lifetime + 2
\* steps it is done.  It is then done with a complete record of the twelve
\* output fields and status 200, or with {"error": ...} alone and status 400
\* or 500; until then nothing is answered, and afterwards nothing changes.
C8_OneOutcome ==
    /\ [](pc \in {"idle", "parse", "loop", "done"})
    /\ [][/\ pc = "parse" => pc' \in {"loop", "done"}
          /\ (pc = "loop" /\ pc' = "loop") =>
                 /\ locals'.year = locals.year + 1
                 /\ locals'.year \in 1..locals.lifetime
                 /\ locals'.lifetime = locals.lifetime
          /\ pc = "loop" => pc' \in {"loop", "done"}
          /\ pc = "done" => pc' = "done" /\ response' = response]_vars
    /\ [](Done =>
            \/ response.status = 200 /\ DOMAIN response.body = ResultFields
            \/ response.status \in {400, 500} /\ DOMAIN response.body = {"error"})
    /\ [](~Done => response = NoResponse)

\* an exception after the first year was computed: the answer is the error alone
C8_Witness ==
    /\ Done /\ response.status = 500 /\ Len(locals.annual_savings) >= 1
    /\ DOMAIN response.body = {"error"}

\* C9: once payback_year is set it never changes, and `not payback_year` is
\* true exactly while payback_year is None.
C9_PaybackSetOnce ==
    /\ [][~locals.payback_year.isNone =>
              locals'.payback_year = locals.payback_year]_vars
    /\ [](Falsy(locals.payback_year) <=> locals.payback_year.isNone)

\* payback in year 1, the cumulative profit below the threshold after year 2
\* and at it again after year 3
C9_Witness ==
    /\ pc = "loop" /\ locals.year = 3 /\ locals.payback_year = PyInt(1)
    /\ FGt(Threshold(locals), CumulativeAfter(locals, 2))
    /\ FGe(locals.cumulative, Threshold(locals))

WithDiscount(d, r) == [d EXCEPT !.fields.discount_rate = JNum(r)]
ValidDiscountVals == {r \in DiscountVals : FAdd(One, r) # Zero}

\* same status, and the same body but for the echoed discount_rate
SameButDiscount(r1, r2) ==
    /\ r1.status = r2.status
    /\ DOMAIN r1.body = DOMAIN r2.body
    /\ \A k \in DOMAIN r1.body \ {"discount_rate"} : r1.body[k] = r2.body[k]

\* C10: two requests (every field present and numeric, capex > 0, lifetime >
\* 0) that differ only in a discount_rate other than -1 get the same status
\* and the same body but for the echoed discount_rate.
C10_DiscountNotSurfaced ==
    (Done /\ AllNumeric /\ data.fields.discount_rate.v \in ValidDiscountVals
          /\ FGt(data.fields.capex.v, Zero) /\ Trunc(data.fields.lifetime.v) > 0) =>
        \A r \in ValidDiscountVals :
            SameButDiscount(response, Handle(WithDiscount(data, r)))

====
